---- MODULE Spec2Model ----
(***************************************************************************)
(* Portfolio ledger (portfolio/services.py, portfolio/models.py) and the   *)
(* signal execution loops (trading/execution.py, trading/services.py,      *)
(* trading/management/commands/run_trading_bot.py).                        *)
(*                                                                         *)
(* Money is an integer number of units of 1/BrokerageDen rupee, so that    *)
(* the 0.03% brokerage of a whole-rupee amount is exact.  A DecimalField   *)
(* with decimal_places=2 keeps what was assigned on the Python object and  *)
(* stores the value quantized to one cent (half-even), so every persisted  *)
(* amount is a multiple of Cent while an object in memory may not be.      *)
(* The arithmetic is modelled on the numbers the operands denote.          *)
(*                                                                         *)
(* The broker adapter (angel_api/services.py) is the environment of the    *)
(* loops: a price lookup answers with a price, with None, or raises (the   *)
(* loops call get_ltp with the symbol alone, which the three-parameter     *)
(* method of the adapter answers with a TypeError); place_order accepts    *)
(* or rejects.  The model classes of trading/models.py are not part of     *)
(* the sources at hand; signals and bots carry the fields the loops read   *)
(* and write, with the values generate_signals and create_bot give them.   *)
(***************************************************************************)
EXTENDS Integers, Sequences, FiniteSets, TLC

\* ------------------------------------------------------------------ bounds
MaxCalls == 3
MaxSignals == 3
MaxCycles == 2
MaxDirect == 1
MaxSvcCycles == 2
BotMaxPositions == 3

\* --------------------------------------------------------------- constants
BrokerageNum == 3
BrokerageDen == 10000

Rupee == BrokerageDen
Cent == Rupee \div 100
InitialBalance == 50000 * Rupee

Symbols == {"A", "B"}
Prices == {100 * Rupee, 120 * Rupee, 130 * Rupee}
Quantities == {10, 15}
Actions == {"BUY", "SELL"}
Faults == {"none", "trade_create", "portfolio_save", "position_save"}
\* What a request can carry as price and quantity.
RequestPrices == {-100 * Rupee, 0, 100 * Rupee}
RequestQuantities == {0, 10}

BaseQuantity == 10
ExitConfidence == 90
PositionSize == 10
StopLossPercent == 2
TakeProfitPercent == 5
RiskExitConfidence == 100
\* The processes that run TradingBotService.run_bot_cycle for a bot.
Instances == {1, 2}

Bots == {"b1"}
BotOrder == <<"b1">>
SymbolOrder == <<"A", "B">>
SignalIds == 1 .. MaxSignals
SignalTypes == {"BUY", "SELL"}
Confidences == {50, 100}
EntryPrice == 100 * Rupee
\* entry * 0.98 and entry * 1.05 for a BUY, entry * 1.02 and entry * 0.95 for a SELL
StopLossPrice == [BUY |-> 98 * Rupee, SELL |-> 102 * Rupee]
TargetPrice == [BUY |-> 105 * Rupee, SELL |-> 95 * Rupee]
LtpValues == {95 * Rupee, 100 * Rupee, 110 * Rupee}
\* What a price lookup gives: a price, None, or an exception.
LtpOutcomes ==
    {[kind |-> "price", price |-> p] : p \in LtpValues}
        \cup {[kind |-> "none", price |-> 0], [kind |-> "raise", price |-> 0]}
\* What place_order gives: (True, order_id), (False, message), or an
\* exception.  A failure is named by the message it carries.
BrokerOutcomes == {"ok", "rejected", "raise"}

VARIABLES
    dbBalance,      \* Portfolio.current_balance as persisted
    memBalance,     \* current_balance of the Portfolio object the service holds
    positions,      \* persisted Position rows, one per (portfolio, symbol)
    trades,         \* persisted Trade rows, oldest first
    lastCall,       \* the last execute_trade call and how it ended
    nCalls,         \* execute_trade calls made so far
    signals,        \* persisted TradingSignal rows by id (ids follow created_at)
    executions,     \* persisted TradingExecution rows, oldest first
    orders,         \* orders the broker accepted (AngelOneAPI.place_order)
    botDb,          \* persisted TradingBot rows
    cmd,            \* the run_trading_bot process: options, position, objects held
    nDirect,        \* execute_signal calls made outside a cycle
    svc,            \* the processes running TradingBotService.run_bot_cycle
    nSvc            \* run_bot_cycle calls started so far

ledgerVars == <<dbBalance, memBalance, positions, trades, lastCall, nCalls>>
loopVars == <<signals, executions, orders, botDb, cmd, nDirect, svc, nSvc>>
vars == <<dbBalance, memBalance, positions, trades, lastCall, nCalls,
          signals, executions, orders, botDb, cmd, nDirect, svc, nSvc>>

\* ------------------------------------------------------------ arithmetic
\* n/d rounded half-even to a multiple of Cent (d > 0).
QuantizeDiv(n, d) ==
    LET m == d * Cent
        q == n \div m
        r == n % m
    IN  IF 2 * r < m THEN q * Cent
        ELSE IF 2 * r > m THEN (q + 1) * Cent
        ELSE IF q % 2 = 0 THEN q * Cent ELSE (q + 1) * Cent

Quantize(x) == QuantizeDiv(x, 1)

Abs(x) == IF x < 0 THEN -x ELSE x

BrokerageFee(trade_amount) == (trade_amount * BrokerageNum) \div BrokerageDen

\* ---------------------------------------------------------------- rows
NoPosition ==
    [exists |-> FALSE, total_quantity |-> 0, average_price |-> 0,
     invested_amount |-> 0, is_open |-> FALSE, exit_date |-> FALSE]

NoCall ==
    [action |-> "none", symbol |-> "none", price |-> 0, quantity |-> 0,
     outcome |-> "none"]

TradeRow(symbol, price, quantity, action, brokerage_fee, profit, has_profit) ==
    [symbol |-> symbol, price |-> Quantize(price), quantity |-> quantity,
     action |-> action, brokerage_fee |-> Quantize(brokerage_fee),
     profit |-> profit, has_profit |-> has_profit]

\* ------------------------------------------------- PortfolioService: BUY
\* The Position row after a BUY: get_or_create on (portfolio, symbol), the
\* defaults when the row is created, the weighted update when it is found
\* (whether or not the row found is open).
BuyPosition(pos, price, quantity, total_cost) ==
    IF ~pos.exists
    THEN [exists |-> TRUE, total_quantity |-> quantity,
          average_price |-> Quantize(price),
          invested_amount |-> Quantize(total_cost), is_open |-> TRUE,
          exit_date |-> FALSE]
    ELSE LET total_invested == pos.invested_amount + total_cost
             total_quantity == pos.total_quantity + quantity
         IN  [pos EXCEPT !.average_price = QuantizeDiv(total_invested, total_quantity),
                         !.total_quantity = total_quantity,
                         !.invested_amount = Quantize(total_invested)]

\* [outcome, mem, position, trade] of _execute_buy_trade.
ExecuteBuyTrade(mem, pos, symbol, price, quantity, trade_amount, brokerage_fee) ==
    LET total_cost == trade_amount + brokerage_fee
    IN  [outcome |-> "ok",
         mem |-> mem - total_cost,
         position |-> BuyPosition(pos, price, quantity, total_cost),
         trade |-> TradeRow(symbol, price, quantity, "BUY", brokerage_fee, 0, FALSE)]

\* ------------------------------------------------ PortfolioService: SELL
\* Position.objects.get(portfolio, symbol, is_open=True) finds a row.
HasOpenPosition(pos) == pos.exists /\ pos.is_open

SellAllowed(pos, quantity) == pos.total_quantity >= quantity

SellProfit(pos, price, quantity, brokerage_fee) ==
    (price - pos.average_price) * quantity - brokerage_fee

\* A SELL that leaves the row open whatever is left of the position.
SellPositionKeepsOpen(pos, quantity) ==
    [pos EXCEPT !.total_quantity = pos.total_quantity - quantity,
                !.invested_amount =
                    Quantize(pos.invested_amount - pos.average_price * quantity)]

\* The Position row after an accepted SELL; close_position saves the row
\* with is_open False and exit_date set (exit_date: whether the field holds
\* a time), and leaves invested_amount as it was.
SellPosition(pos, quantity) ==
    LET left == pos.total_quantity - quantity
    IN  IF left = 0
        THEN [pos EXCEPT !.total_quantity = 0, !.is_open = FALSE, !.exit_date = TRUE]
        ELSE [pos EXCEPT !.total_quantity = left,
                         !.invested_amount =
                             Quantize(pos.invested_amount - pos.average_price * quantity)]

\* [outcome, mem, position, trade] of _execute_sell_trade: the balance is
\* credited and saved before the position is looked up.
ExecuteSellTrade(mem, pos, symbol, price, quantity, trade_amount, brokerage_fee) ==
    LET net_amount == trade_amount - brokerage_fee
        outcome == IF ~HasOpenPosition(pos) THEN "no_position"
                   ELSE IF ~SellAllowed(pos, quantity) THEN "insufficient"
                   ELSE "ok"
    IN  [outcome |-> outcome,
         mem |-> mem + net_amount,
         position |-> IF outcome = "ok" THEN SellPosition(pos, quantity) ELSE pos,
         trade |-> TradeRow(symbol, price, quantity, "SELL", brokerage_fee,
                            IF outcome = "ok"
                            THEN Quantize(SellProfit(pos, price, quantity, brokerage_fee))
                            ELSE 0,
                            outcome = "ok")]

\* ------------------------------------------- PortfolioService.execute_trade
\* What transaction.atomic keeps of a call: everything when the block ends
\* normally, nothing when an exception leaves it.
Committed(outcome) == outcome = "ok"

\* [outcome, mem, balance, position, trades] of one execute_trade call.  A
\* fault is an exception of the storage layer: in Trade.objects.create
\* (before the balance is touched), in portfolio.save() or in a save of the
\* position (both after the balance was assigned on the object).
ExecuteTradeResult(mem, db, pos, trs, symbol, price, quantity, action, fault) ==
    LET trade_amount == price * quantity
        brokerage_fee == BrokerageFee(trade_amount)
        r == IF action = "BUY"
             THEN ExecuteBuyTrade(mem, pos, symbol, price, quantity,
                                  trade_amount, brokerage_fee)
             ELSE ExecuteSellTrade(mem, pos, symbol, price, quantity,
                                   trade_amount, brokerage_fee)
        outcome == IF fault \in {"trade_create", "portfolio_save"} THEN "fault"
                   ELSE IF r.outcome # "ok" THEN r.outcome
                   ELSE IF fault # "none" THEN "fault"
                   ELSE "ok"
        mem2 == IF fault = "trade_create" THEN mem ELSE r.mem
    IN  [outcome |-> outcome,
         mem |-> mem2,
         balance |-> IF Committed(outcome) THEN Quantize(mem2) ELSE db,
         position |-> IF Committed(outcome) THEN r.position ELSE pos,
         trades |-> IF Committed(outcome) THEN Append(trs, r.trade) ELSE trs]

ExecuteTrade(symbol, price, quantity, action, fault) ==
    /\ nCalls < MaxCalls
    /\ LET r == ExecuteTradeResult(memBalance, dbBalance, positions[symbol], trades,
                                   symbol, price, quantity, action, fault)
       IN  /\ memBalance' = r.mem
           /\ dbBalance' = r.balance
           /\ positions' = [positions EXCEPT ![symbol] = r.position]
           /\ trades' = r.trades
           /\ lastCall' = [action |-> action, symbol |-> symbol, price |-> price,
                           quantity |-> quantity, outcome |-> r.outcome]
    /\ nCalls' = nCalls + 1
    /\ UNCHANGED loopVars

\* PortfolioViewSet.execute_trade: a request builds a new PortfolioService
\* around the Portfolio row it has just read.
NewService ==
    /\ memBalance # dbBalance
    /\ memBalance' = dbBalance
    /\ UNCHANGED <<dbBalance, positions, trades, lastCall, nCalls>>
    /\ UNCHANGED loopVars

\* ExecuteTradeSerializer.is_valid: quantity is an IntegerField with
\* min_value=1; price is a DecimalField with no lower limit.
SerializerValid(price, quantity) == quantity >= 1

\* PortfolioViewSet.execute_trade, one request: the serializer checks the
\* data, a new PortfolioService is built around the Portfolio row just read,
\* and execute_trade is called; invalid data is answered with the
\* serializer's errors.
ExecuteTradeRequest(symbol, price, quantity, action) ==
    /\ nCalls < MaxCalls
    /\ LET r == ExecuteTradeResult(dbBalance, dbBalance, positions[symbol], trades,
                                   symbol, price, quantity, action, "none")
       IN  IF SerializerValid(price, quantity)
           THEN /\ memBalance' = r.mem
                /\ dbBalance' = r.balance
                /\ positions' = [positions EXCEPT ![symbol] = r.position]
                /\ trades' = r.trades
                /\ lastCall' = [action |-> action, symbol |-> symbol, price |-> price,
                                quantity |-> quantity, outcome |-> r.outcome]
           ELSE /\ UNCHANGED <<memBalance, dbBalance, positions, trades>>
                /\ lastCall' = [action |-> action, symbol |-> symbol, price |-> price,
                                quantity |-> quantity, outcome |-> "invalid"]
    /\ nCalls' = nCalls + 1
    /\ UNCHANGED loopVars

\* PortfolioService.get_balance
GetBalance == memBalance

LedgerInit ==
    /\ dbBalance = InitialBalance
    /\ memBalance = InitialBalance
    /\ positions = [s \in Symbols |-> NoPosition]
    /\ trades = <<>>
    /\ lastCall = NoCall
    /\ nCalls = 0

LedgerTrade ==
    \E symbol \in Symbols, price \in Prices, quantity \in Quantities,
       action \in Actions, fault \in Faults :
        ExecuteTrade(symbol, price, quantity, action, fault)

\* ======================================================= execution loops
Max(a, b) == IF a >= b THEN a ELSE b

NoSignal ==
    [exists |-> FALSE, strategy |-> "none", symbol |-> "none", signal_type |-> "none",
     confidence |-> 0, entry_price |-> 0, stop_loss_price |-> 0, target_price |-> 0,
     expired |-> FALSE, is_active |-> FALSE, is_executed |-> FALSE]

\* A signal as generate_signals creates it, with its stop-loss and its
\* target around the entry price.  A price of 0 stands for None.
NewSignal(strategy, symbol, signal_type, confidence, expired) ==
    [exists |-> TRUE, strategy |-> strategy, symbol |-> symbol,
     signal_type |-> signal_type, confidence |-> confidence,
     entry_price |-> EntryPrice,
     stop_loss_price |-> StopLossPrice[signal_type],
     target_price |-> TargetPrice[signal_type],
     expired |-> expired, is_active |-> TRUE, is_executed |-> FALSE]

\* The signal OrderMonitor._trigger_exit creates: the opposite direction, no
\* thresholds and no expiry of its own.
ExitSignal(sig, current_price) ==
    [exists |-> TRUE, strategy |-> sig.strategy, symbol |-> sig.symbol,
     signal_type |-> IF sig.signal_type = "BUY" THEN "SELL" ELSE "BUY",
     confidence |-> ExitConfidence, entry_price |-> current_price,
     stop_loss_price |-> 0, target_price |-> 0,
     expired |-> FALSE, is_active |-> TRUE, is_executed |-> FALSE]

FreeIds(sigs) == {i \in SignalIds : ~sigs[i].exists}
NextId(sigs) == CHOOSE i \in FreeIds(sigs) : \A k \in FreeIds(sigs) : i <= k

NewBot(is_paper_trading) ==
    [is_active |-> TRUE, is_paper_trading |-> is_paper_trading,
     max_positions |-> BotMaxPositions, trading_hours_only |-> FALSE,
     error_count |-> 0, last_error |-> "", total_runs |-> 0]

\* ------------------------------------------------------- TradingExecutor
\* x / 1000 rounded half-up to a multiple of Cent.
HalfUpPerMille(x) ==
    LET m == 1000 * Cent
        q == x \div m
    IN  IF 2 * (x % m) >= m THEN (q + 1) * Cent ELSE q * Cent

\* current_price * (1 + slippage) and current_price * (1 - slippage) are
\* products of doubles, and Decimal(product) is the exact value of the
\* double: where the product of the numbers ends on half a cent, the double
\* lies just below or just above it.  Of the prices the lookup gives here,
\* 95 * (1 + 0.001) is the double 95.09499999999998465 (below 95.095) and
\* 95 * (1 - 0.001) the double 94.90500000000000114 (above 94.905); no other
\* product ends on half a cent.
DoubleBelowHalfCent == {<<95 * Rupee, "BUY">>}

\* Decimal(product).quantize(Decimal('0.01'), rounding=ROUND_HALF_UP) of
\* ltp * (1 + 0.1%) for a BUY, ltp * (1 - 0.1%) for a SELL.
PaperFill(ltp, signal_type) ==
    LET n == IF signal_type = "BUY" THEN ltp * 1001 ELSE ltp * 999
    IN  IF <<ltp, signal_type>> \in DoubleBelowHalfCent
        THEN HalfUpPerMille(n) - Cent
        ELSE HalfUpPerMille(n)

\* (success, result) of _execute_paper_trade: None * float and an exception of
\* the lookup both end in the except clause (error "ltp": the text of that
\* exception).
PaperTrade(sig, ltp) ==
    IF ltp.kind = "price"
    THEN [success |-> TRUE, executed_price |-> PaperFill(ltp.price, sig.signal_type),
          ordered |-> FALSE, error |-> ""]
    ELSE [success |-> FALSE, executed_price |-> 0, ordered |-> FALSE, error |-> "ltp"]

\* (success, result) of _execute_real_trade; ordered: the broker accepted
\* the order.  The price is looked up after the order is placed.
RealTrade(sig, ltp, broker) ==
    IF broker # "ok"
    THEN [success |-> FALSE, executed_price |-> 0, ordered |-> FALSE, error |-> broker]
    ELSE IF ltp.kind = "raise"
    THEN [success |-> FALSE, executed_price |-> 0, ordered |-> TRUE, error |-> "ltp"]
    ELSE [success |-> TRUE, executed_price |-> ltp.price, ordered |-> TRUE, error |-> ""]

PlaceOrder(sig, is_paper_trading, ltp, broker) ==
    IF is_paper_trading THEN PaperTrade(sig, ltp) ELSE RealTrade(sig, ltp, broker)

\* TradingExecutor._update_portfolio raises inside its try block: for a BUY
\* it calls portfolio_service.add_holding, for a SELL reduce_holding, and
\* PortfolioService defines neither.  The except clause logs the error.
UpdatePortfolioRaises(signal_type) == signal_type \in {"BUY", "SELL"}

\* TradingExecutor._setup_exit_orders: for a BUY it derives the stop-loss and
\* the take-profit price and calls _create_exit_signal for each, which works
\* out the opposite signal type and writes a log line.  The signal store is
\* returned as it is.
SetupExitOrders(sigs, sid) == sigs

\* The rows after TradingExecutor.execute_signal(signal, bot, quantity): an
\* execution row is added, EXECUTED or FAILED; on success the signal is
\* saved as executed.  The call does not look at signal.is_executed.
\* _update_portfolio calls portfolio_service.add_holding / reduce_holding;
\* PortfolioService defines neither, the AttributeError is caught and logged,
\* and the ledger stays as it is.
ExecuteSignalResult(sigs, execs, ords, sid, bot, is_paper_trading, quantity, ltp, broker) ==
    LET sig == sigs[sid]
        r == PlaceOrder(sig, is_paper_trading, ltp, broker)
        row == [signal |-> sid, bot |-> bot, quantity |-> quantity,
                status |-> IF r.success THEN "EXECUTED" ELSE "FAILED",
                executed_price |-> r.executed_price,
                error_message |-> r.error, by |-> 0]
    IN  [signals |-> IF r.success
                     THEN SetupExitOrders([sigs EXCEPT ![sid] = [sig EXCEPT !.is_executed = TRUE]],
                                          sid)
                     ELSE sigs,
         executions |-> Append(execs, row),
         orders |-> IF r.ordered
                    THEN Append(ords, [signal |-> sid, execution |-> Len(execs) + 1,
                                       paper_only |-> cmd.paper_only /\ cmd.pc # "done"])
                    ELSE ords,
         ledger_fault |-> r.success /\ UpdatePortfolioRaises(sig.signal_type)]

\* ----------------------------------------------------------- RiskManager
ExecutedCount(execs, bot) ==
    Cardinality({i \in 1 .. Len(execs) : execs[i].bot = bot /\ execs[i].status = "EXECUTED"})

ValidateOrder(execs, bot, max_positions) == ExecutedCount(execs, bot) < max_positions

\* ------------------------------------------------- run_trading_bot.Command
CalculateQuantity(confidence) == Max(1, (BaseQuantity * confidence) \div 100)

\* s comes before t in order_by('-confidence', '-created_at').
Before(sigs, s, t) ==
    \/ sigs[s].confidence > sigs[t].confidence
    \/ sigs[s].confidence = sigs[t].confidence /\ s > t

RECURSIVE SortedSeq(_, _)
SortedSeq(sigs, ids) ==
    IF ids = {} THEN <<>>
    ELSE LET first == CHOOSE s \in ids : \A t \in ids \ {s} : Before(sigs, s, t)
         IN  <<first>> \o SortedSeq(sigs, ids \ {first})

\* Command._get_pending_signals
GetPendingSignals(sigs, bot) ==
    SortedSeq(sigs, {s \in SignalIds :
                        /\ sigs[s].exists
                        /\ sigs[s].strategy = bot
                        /\ sigs[s].is_active
                        /\ ~sigs[s].is_executed
                        /\ sigs[s].signal_type # "HOLD"})

RECURSIVE SeqOfSet(_)
SeqOfSet(S) ==
    IF S = {} THEN <<>>
    ELSE LET x == CHOOSE y \in S : \A z \in S : y <= z
         IN  <<x>> \o SeqOfSet(S \ {x})

\* OrderMonitor.monitor_positions: the bot's EXECUTED executions.
ActiveExecutions(execs, bot) ==
    SeqOfSet({i \in 1 .. Len(execs) : execs[i].bot = bot /\ execs[i].status = "EXECUTED"})

\* cycles counts the cycles of every run so far; mark is the number of
\* execution rows that existed when the current bot's cycle began.
CmdIdle ==
    [pc |-> "done", paper_only |-> FALSE, run_once |-> FALSE, bots |-> <<>>, mark |-> 0,
     mem |-> [b \in Bots |-> NewBot(TRUE)], idx |-> 0, original |-> TRUE,
     monq |-> <<>>, queue |-> <<>>, running |-> TRUE, cycles |-> 0]

\* handle(): the options are read and the active bots selected; the bot
\* objects of this queryset are the ones every cycle of the run works on.
CmdStart(paper_only, run_once) ==
    /\ cmd.pc = "done"
    /\ cmd.cycles < MaxCycles
    /\ LET active == SelectSeq(BotOrder, LAMBDA b : botDb[b].is_active)
       IN  cmd' = [cmd EXCEPT !.pc = IF active = <<>> THEN "done" ELSE "bot",
                              !.paper_only = paper_only, !.run_once = run_once,
                              !.bots = active, !.mem = botDb, !.idx = 1,
                              !.monq = <<>>, !.queue = <<>>, !.running = TRUE,
                              !.cycles = IF active = <<>> THEN @ ELSE @ + 1]
    /\ UNCHANGED <<signals, executions, orders, botDb, nDirect, svc, nSvc>>
    /\ UNCHANGED ledgerVars

\* The head of _run_bot_cycle: paper trading is forced on the bot object,
\* and monitor_positions reads the bot's EXECUTED executions.  When the first
\* statement raises (bot.strategy is read from the database), the except
\* clause of _run_bot_cycle counts the error on the bot object and saves it,
\* and handle() goes on to the next bot.
CmdBeginBot(raises) ==
    /\ cmd.pc = "bot"
    /\ cmd.idx <= Len(cmd.bots)
    /\ cmd.running
    /\ LET b == cmd.bots[cmd.idx]
           failed == [cmd.mem[b] EXCEPT !.error_count = @ + 1, !.last_error = "cycle"]
       IN  IF raises
           THEN /\ botDb' = [botDb EXCEPT ![b] = failed]
                /\ cmd' = [cmd EXCEPT !.mem[b] = failed, !.idx = cmd.idx + 1,
                                      !.mark = Len(executions)]
           ELSE /\ botDb' = botDb
                /\ cmd' = [cmd EXCEPT !.pc = "monitor",
                                      !.mark = Len(executions),
                                      !.original = cmd.mem[b].is_paper_trading,
                                      !.mem[b].is_paper_trading =
                                          IF cmd.paper_only THEN TRUE ELSE @,
                                      !.monq = ActiveExecutions(executions, b)]
    /\ UNCHANGED <<signals, executions, orders, nDirect, svc, nSvc>>
    /\ UNCHANGED ledgerVars

\* _check_exit_conditions: the stop-loss is tested first, the target only
\* when the stop-loss did not trigger.  A lookup that gives None or raises
\* ends in the except clause.
ExitTriggered(sig, ltp) ==
    /\ sig.signal_type = "BUY"
    /\ ltp.kind = "price"
    /\ \/ sig.stop_loss_price # 0 /\ ltp.price <= sig.stop_loss_price
       \/ sig.target_price # 0 /\ ltp.price >= sig.target_price

\* One execution of monitor_positions' loop: _check_exit_conditions and, when
\* an exit triggers, _trigger_exit: the exit signal is created and executed
\* for execution.bot, the bot row as read from the database.
CmdMonitorStep(ltp, ltp2, broker) ==
    /\ cmd.pc = "monitor"
    /\ cmd.monq # <<>>
    /\ LET e == Head(cmd.monq)
           row == executions[e]
           sig == signals[row.signal]
       IN  IF ExitTriggered(sig, ltp)
           THEN /\ FreeIds(signals) # {}
                /\ LET id == NextId(signals)
                       created == [signals EXCEPT ![id] = ExitSignal(sig, ltp.price)]
                       r == ExecuteSignalResult(created, executions, orders, id, row.bot,
                                                botDb[row.bot].is_paper_trading,
                                                row.quantity, ltp2, broker)
                   IN  /\ signals' = r.signals
                       /\ executions' = r.executions
                       /\ orders' = r.orders
           ELSE UNCHANGED <<signals, executions, orders>>
    /\ cmd' = [cmd EXCEPT !.monq = Tail(cmd.monq)]
    /\ UNCHANGED <<botDb, nDirect, svc, nSvc>>
    /\ UNCHANGED ledgerVars

\* _get_pending_signals, once the monitor is through.
CmdSelectSignals ==
    /\ cmd.pc = "monitor"
    /\ cmd.monq = <<>>
    /\ cmd' = [cmd EXCEPT !.pc = "signals",
                          !.queue = GetPendingSignals(signals, cmd.bots[cmd.idx])]
    /\ UNCHANGED <<signals, executions, orders, botDb, nDirect, svc, nSvc>>
    /\ UNCHANGED ledgerVars

\* _process_signal for the next pending signal: the quantity, the risk
\* manager's verdict, then execute_signal with the bot object of the cycle.
CmdProcessSignal(ltp, broker) ==
    /\ cmd.pc = "signals"
    /\ cmd.queue # <<>>
    /\ cmd.running
    /\ LET sid == Head(cmd.queue)
           b == cmd.bots[cmd.idx]
           quantity == CalculateQuantity(signals[sid].confidence)
       IN  IF ValidateOrder(executions, b, cmd.mem[b].max_positions)
           THEN LET r == ExecuteSignalResult(signals, executions, orders, sid, b,
                                             cmd.mem[b].is_paper_trading, quantity,
                                             ltp, broker)
                IN  /\ signals' = r.signals
                    /\ executions' = r.executions
                    /\ orders' = r.orders
           ELSE UNCHANGED <<signals, executions, orders>>
    /\ cmd' = [cmd EXCEPT !.queue = Tail(cmd.queue)]
    /\ UNCHANGED <<botDb, nDirect, svc, nSvc>>
    /\ UNCHANGED ledgerVars

\* The tail of _run_bot_cycle: _update_bot_stats saves the bot object (every
\* field of it, as it is at that moment), then the paper mode is restored on
\* the object.  When bot.save() raises, _update_bot_stats catches the
\* exception itself and prints it: the row stays as it was.
CmdEndBot(raises) ==
    /\ cmd.pc = "signals"
    /\ cmd.queue = <<>> \/ ~cmd.running
    /\ LET b == cmd.bots[cmd.idx]
           saved == [cmd.mem[b] EXCEPT !.total_runs = @ + 1]
       IN  /\ botDb' = IF raises THEN botDb ELSE [botDb EXCEPT ![b] = saved]
           /\ cmd' = [cmd EXCEPT !.pc = "bot", !.idx = cmd.idx + 1, !.queue = <<>>,
                                 !.mem[b] = [saved EXCEPT !.is_paper_trading =
                                                IF cmd.paper_only THEN cmd.original ELSE @]]
    /\ UNCHANGED <<signals, executions, orders, nDirect, svc, nSvc>>
    /\ UNCHANGED ledgerVars

\* The end of a cycle: --once (or a cleared running flag) ends the run,
\* otherwise the loop sleeps and starts the next cycle over the same objects.
CmdEndCycle ==
    /\ cmd.pc = "bot"
    /\ cmd.idx > Len(cmd.bots) \/ ~cmd.running
    /\ IF cmd.run_once \/ ~cmd.running \/ cmd.cycles >= MaxCycles
       THEN cmd' = [cmd EXCEPT !.pc = "done"]
       ELSE cmd' = [cmd EXCEPT !.idx = 1, !.cycles = cmd.cycles + 1]
    /\ UNCHANGED <<signals, executions, orders, botDb, nDirect, svc, nSvc>>
    /\ UNCHANGED ledgerVars

\* _signal_handler: SIGINT or SIGTERM arrives while the command runs.
CmdInterrupt ==
    /\ cmd.pc # "done"
    /\ cmd.running
    /\ cmd' = [cmd EXCEPT !.running = FALSE]
    /\ UNCHANGED <<signals, executions, orders, botDb, nDirect, svc, nSvc>>
    /\ UNCHANGED ledgerVars

\* A call of trading_executor.execute_signal from outside a cycle, for any
\* existing signal and the bot row as stored, with the quantity a cycle
\* would pass.
DirectExecuteSignal(sid, ltp, broker) ==
    /\ cmd.pc = "done"
    /\ nDirect < MaxDirect
    /\ signals[sid].exists
    /\ LET b == signals[sid].strategy
           quantity == CalculateQuantity(signals[sid].confidence)
           r == ExecuteSignalResult(signals, executions, orders, sid, b,
                                    botDb[b].is_paper_trading, quantity,
                                    ltp, broker)
       IN  /\ signals' = r.signals
           /\ executions' = r.executions
           /\ orders' = r.orders
    /\ nDirect' = nDirect + 1
    /\ UNCHANGED <<botDb, cmd, svc, nSvc>>
    /\ UNCHANGED ledgerVars

\* ------------------------------------------------------ TradingBotService
\* One process per call of run_bot_cycle (RunBotView.post builds a new
\* TradingBotService for every request): the bot and the portfolio it read,
\* the signals it selected, and the signal it is about to execute.
SvcIdle ==
    [pc |-> "idle", name |-> "none", bot |-> NewBot(TRUE), mem |-> 0, queue |-> <<>>,
     cur |-> 0, quantity |-> 0, exec |-> 0, monq |-> <<>>]

\* A selection of pending signals that does not look at is_executed.
SvcPendingSignalsUngated(sigs, bot) ==
    SeqOfSet({s \in SignalIds :
                 /\ sigs[s].exists
                 /\ sigs[s].strategy = bot
                 /\ sigs[s].is_active
                 /\ ~sigs[s].expired})

\* _process_pending_signals: the pending signals of the strategy that are
\* not past their expiry time.
SvcPendingSignals(sigs, bot) ==
    SeqOfSet({s \in SignalIds :
                 /\ sigs[s].exists
                 /\ sigs[s].strategy = bot
                 /\ sigs[s].is_active
                 /\ ~sigs[s].is_executed
                 /\ ~sigs[s].expired})

\* The orders in which a queryset without order_by can return its rows: the
\* filter of _process_pending_signals names no order, and the database is
\* free to return the rows in any.
Orderings(rows) ==
    {q \in [1 .. Len(rows) -> {rows[k] : k \in 1 .. Len(rows)}] :
        \A m, n \in 1 .. Len(rows) : m # n => q[m] # q[n]}

\* The signal object an instance holds: the row as it was when the cycle
\* selected it (active, not executed).  signal.save() writes every field.
StaleSignal(sig) == [sig EXCEPT !.is_active = TRUE, !.is_executed = FALSE]

\* int(balance * (position_size / 100) / entry_price)
\* (the product is taken in two parts to stay within the integer range)
SvcBuyQuantity(balance, entry_price) ==
    LET whole == (balance \div 100) * PositionSize
        part == ((balance % 100) * PositionSize) \div 100
    IN  (whole + part) \div entry_price

\* RunBotView.post and the head of run_bot_cycle: the bot is read and must be
\* active, its run counter is saved, the portfolio is read, and the pending
\* signals are selected.
SvcBeginCycle(i) ==
    /\ svc[i].pc = "idle"
    /\ nSvc < MaxSvcCycles
    /\ \E b \in Bots :
          /\ botDb[b].is_active
          /\ \E queue \in Orderings(SvcPendingSignals(signals, b)) :
                LET bot == [botDb[b] EXCEPT !.total_runs = @ + 1]
                IN  /\ botDb' = [botDb EXCEPT ![b] = bot]
                    /\ svc' = [svc EXCEPT ![i] = [pc |-> "signals", name |-> b, bot |-> bot,
                                                  mem |-> dbBalance,
                                                  queue |-> queue,
                                                  cur |-> 0, quantity |-> 0, exec |-> 0,
                                                  monq |-> <<>>]]
    /\ nSvc' = nSvc + 1
    /\ UNCHANGED <<signals, executions, orders, cmd, nDirect>>
    /\ UNCHANGED ledgerVars

\* The head of _execute_signal: the open position of the symbol is looked
\* up; a SELL without one and a BUY with one deactivate the signal; else the
\* quantity is computed, and a BUY of quantity 0 is dropped.
SvcCheckSignal(i) ==
    /\ svc[i].pc = "signals"
    /\ svc[i].queue # <<>>
    /\ svc[i].cur = 0
    /\ LET sid == Head(svc[i].queue)
           sig == signals[sid]
           existing == HasOpenPosition(positions[sig.symbol])
           quantity == IF sig.signal_type = "BUY"
                       THEN SvcBuyQuantity(svc[i].mem, sig.entry_price)
                       ELSE positions[sig.symbol].total_quantity
       IN  IF (sig.signal_type = "SELL") # existing
           THEN /\ signals' = [signals EXCEPT
                                  ![sid] = [StaleSignal(sig) EXCEPT !.is_active = FALSE]]
                /\ svc' = [svc EXCEPT ![i].queue = Tail(@)]
           ELSE /\ signals' = signals
                /\ IF quantity = 0
                   THEN svc' = [svc EXCEPT ![i].queue = Tail(@)]
                   ELSE svc' = [svc EXCEPT ![i].cur = sid, ![i].quantity = quantity]
    /\ UNCHANGED <<executions, orders, botDb, cmd, nDirect, nSvc>>
    /\ UNCHANGED ledgerVars

\* Whether the order is filled: always on paper, and through the broker when
\* place_order returns success.
SvcFilled(paper, broker) == paper \/ broker = "ok"

\* The middle of _execute_signal: the execution row is created; a real bot
\* places a limit order at the entry price, a paper bot fills at the entry
\* price; the row is saved EXECUTED or FAILED.  No transaction is open: the
\* saved row is what every other reader sees from here on.
SvcPlaceOrder(i, broker) ==
    /\ svc[i].pc = "signals"
    /\ svc[i].cur # 0
    /\ svc[i].exec = 0
    /\ LET sid == svc[i].cur
           sig == signals[sid]
           paper == svc[i].bot.is_paper_trading
           filled == SvcFilled(paper, broker)
           row == [signal |-> sid, bot |-> sig.strategy, quantity |-> svc[i].quantity,
                   status |-> IF filled THEN "EXECUTED" ELSE "FAILED",
                   executed_price |-> IF filled THEN sig.entry_price ELSE 0,
                   error_message |-> IF filled THEN "" ELSE broker,
                   by |-> i]
       IN  /\ executions' = Append(executions, row)
           /\ orders' = IF ~paper /\ broker = "ok"
                        THEN Append(orders, [signal |-> sid,
                                             execution |-> Len(executions) + 1,
                                             paper_only |-> FALSE])
                        ELSE orders
           /\ svc' = IF filled
                     THEN [svc EXCEPT ![i].exec = Len(executions) + 1]
                     ELSE [svc EXCEPT ![i].cur = 0, ![i].quantity = 0,
                                      ![i].queue = Tail(@)]
    /\ UNCHANGED <<signals, botDb, cmd, nDirect, nSvc>>
    /\ UNCHANGED ledgerVars

\* The end of _execute_signal for an EXECUTED execution: the signal is saved
\* as executed and, for a paper bot, the trade is booked in the ledger
\* through the instance's portfolio object.  An exception of the ledger call
\* is caught: the execution row is saved again, as FAILED, with the text of
\* the exception ("ledger") as its error_message.
SvcBookSignal(i, fault) ==
    /\ svc[i].pc = "signals"
    /\ svc[i].exec # 0
    /\ LET sid == svc[i].cur
           sig == signals[sid]
           paper == svc[i].bot.is_paper_trading
           r == ExecuteTradeResult(svc[i].mem, dbBalance, positions[sig.symbol], trades,
                                   sig.symbol, sig.entry_price, svc[i].quantity,
                                   sig.signal_type, fault)
       IN  /\ signals' = [signals EXCEPT
                             ![sid] = [StaleSignal(sig) EXCEPT !.is_executed = TRUE]]
           /\ IF paper
              THEN /\ dbBalance' = r.balance
                   /\ positions' = [positions EXCEPT ![sig.symbol] = r.position]
                   /\ trades' = r.trades
                   /\ executions' = IF r.outcome = "ok" THEN executions
                                    ELSE [executions EXCEPT
                                             ![svc[i].exec].status = "FAILED",
                                             ![svc[i].exec].error_message = "ledger"]
                   /\ svc' = [svc EXCEPT ![i].mem = r.mem, ![i].cur = 0, ![i].exec = 0,
                                         ![i].quantity = 0, ![i].queue = Tail(@)]
              ELSE /\ UNCHANGED <<dbBalance, positions, trades, executions>>
                   /\ svc' = [svc EXCEPT ![i].cur = 0, ![i].exec = 0,
                                         ![i].quantity = 0, ![i].queue = Tail(@)]
    /\ UNCHANGED <<memBalance, lastCall, nCalls>>
    /\ UNCHANGED <<orders, botDb, cmd, nDirect, nSvc>>

OpenCount == Cardinality({s \in Symbols : HasOpenPosition(positions[s])})

\* Once the pending signals are through: _can_open_new_positions and, when
\* it allows, _generate_and_process_signals, whose symbol discovery and
\* analysis either return or raise; an exception ends the cycle with the
\* bot's error counter saved.  Then _monitor_positions reads the open positions.
SvcAfterSignals(i, generate) ==
    /\ svc[i].pc = "signals"
    /\ svc[i].queue = <<>>
    /\ IF OpenCount < svc[i].bot.max_positions /\ generate = "raise"
       THEN LET bot == [svc[i].bot EXCEPT !.error_count = @ + 1,
                                          !.last_error = "generate"]
            IN  /\ botDb' = [botDb EXCEPT ![svc[i].name] = bot]
                /\ svc' = [svc EXCEPT ![i] = SvcIdle]
       ELSE /\ botDb' = botDb
            /\ svc' = [svc EXCEPT ![i].pc = "monitor",
                          ![i].monq = SelectSeq(SymbolOrder,
                                         LAMBDA s : HasOpenPosition(positions[s]))]
    /\ UNCHANGED <<signals, executions, orders, cmd, nDirect, nSvc>>
    /\ UNCHANGED ledgerVars

\* _should_exit_position: the profit in percent of the average price, against
\* the bot's stop-loss and take-profit percentages.
ShouldExitPosition(pos, current_price) ==
    LET pnl == (current_price - pos.average_price) * 100
    IN  \/ pnl <= -(StopLossPercent * pos.average_price)
        \/ pnl >= TakeProfitPercent * pos.average_price

\* _create_exit_signal: a SELL of the position's symbol at the current price.
RiskExitSignal(strategy, symbol, current_price) ==
    [exists |-> TRUE, strategy |-> strategy, symbol |-> symbol, signal_type |-> "SELL",
     confidence |-> RiskExitConfidence, entry_price |-> current_price,
     stop_loss_price |-> 0, target_price |-> 0,
     expired |-> FALSE, is_active |-> TRUE, is_executed |-> FALSE]

\* One execution of _monitor_positions' loop.  The current price, the value
\* and the unrealized profit that update_current_price stores on the
\* position are not part of the position record of this model.
SvcMonitorStep(i, ltp) ==
    /\ svc[i].pc = "monitor"
    /\ svc[i].monq # <<>>
    /\ LET symbol == Head(svc[i].monq)
           pos == positions[symbol]
       IN  IF ltp.kind = "price" /\ ShouldExitPosition(pos, ltp.price)
           THEN /\ FreeIds(signals) # {}
                /\ signals' = [signals EXCEPT
                                  ![NextId(signals)] =
                                      RiskExitSignal(svc[i].name, symbol, ltp.price)]
           ELSE signals' = signals
    /\ svc' = [svc EXCEPT ![i].monq = Tail(@)]
    /\ UNCHANGED <<executions, orders, botDb, cmd, nDirect, nSvc>>
    /\ UNCHANGED ledgerVars

\* The cycle is through.
SvcEndCycle(i) ==
    /\ svc[i].pc = "monitor"
    /\ svc[i].monq = <<>>
    /\ svc' = [svc EXCEPT ![i] = SvcIdle]
    /\ UNCHANGED <<signals, executions, orders, botDb, cmd, nDirect, nSvc>>
    /\ UNCHANGED ledgerVars

\* No signal, no execution, no running process.
\* TradingBotService.stop_bot: the bot is saved with is_active False.  The
\* call comes while no cycle of the bot is in progress: the command is not
\* running or has gone through its bots and sleeps, and no run_bot_cycle is
\* under way.
StopBot(b) ==
    /\ botDb[b].is_active
    /\ cmd.pc = "done" \/ (cmd.pc = "bot" /\ cmd.idx > Len(cmd.bots))
    /\ \A i \in Instances : svc[i].pc = "idle"
    /\ botDb' = [botDb EXCEPT ![b].is_active = FALSE]
    /\ UNCHANGED <<signals, executions, orders, cmd, nDirect, svc, nSvc>>
    /\ UNCHANGED ledgerVars

LoopIdle ==
    /\ signals = [i \in SignalIds |-> NoSignal]
    /\ executions = <<>>
    /\ orders = <<>>
    /\ botDb = [b \in Bots |-> NewBot(TRUE)]
    /\ cmd = CmdIdle
    /\ nDirect = 0
    /\ svc = [i \in Instances |-> SvcIdle]
    /\ nSvc = 0

\* One pending signal of a strategy, and the bot that runs the strategy.
LoopInit ==
    /\ \E signal_type \in SignalTypes, confidence \in Confidences, expired \in BOOLEAN :
          signals = [i \in SignalIds |->
                        IF i = 1
                        THEN NewSignal("b1", "A", signal_type, confidence, expired)
                        ELSE NoSignal]
    /\ executions = <<>>
    /\ orders = <<>>
    /\ \E is_paper_trading \in BOOLEAN : botDb = [b \in Bots |-> NewBot(is_paper_trading)]
    /\ cmd = CmdIdle
    /\ nDirect = 0
    /\ svc = [i \in Instances |-> SvcIdle]
    /\ nSvc = 0

\* Two pending signals of one strategy, the second created after the first,
\* and the bot that runs the strategy.
OrderInit ==
    /\ \E c1 \in Confidences, c2 \in Confidences :
          signals = [i \in SignalIds |->
                        IF i = 1 THEN NewSignal("b1", "A", "BUY", c1, FALSE)
                        ELSE IF i = 2 THEN NewSignal("b1", "B", "BUY", c2, FALSE)
                        ELSE NoSignal]
    /\ executions = <<>>
    /\ orders = <<>>
    /\ \E is_paper_trading \in BOOLEAN : botDb = [b \in Bots |-> NewBot(is_paper_trading)]
    /\ cmd = CmdIdle
    /\ nDirect = 0
    /\ svc = [i \in Instances |-> SvcIdle]
    /\ nSvc = 0

\* Two pending BUY signals of one strategy for two symbols, and the bot that
\* runs the strategy, created with a limit of one to BotMaxPositions open
\* positions.
LimitInit ==
    /\ signals = [i \in SignalIds |->
                     IF i = 1 THEN NewSignal("b1", "A", "BUY", 100, FALSE)
                     ELSE IF i = 2 THEN NewSignal("b1", "B", "BUY", 100, FALSE)
                     ELSE NoSignal]
    /\ executions = <<>>
    /\ orders = <<>>
    /\ \E is_paper_trading \in BOOLEAN, max_positions \in 1 .. BotMaxPositions :
          botDb = [b \in Bots |->
                      [NewBot(is_paper_trading) EXCEPT !.max_positions = max_positions]]
    /\ cmd = CmdIdle
    /\ nDirect = 0
    /\ svc = [i \in Instances |-> SvcIdle]
    /\ nSvc = 0

\* The steps of the command itself; Raises holds the outcomes of the
\* statements of the cycle that read or write the bot (TRUE: the statement
\* raises).
CmdCycle(Raises) ==
    \/ \E paper_only \in BOOLEAN, run_once \in BOOLEAN : CmdStart(paper_only, run_once)
    \/ \E raises \in Raises : CmdBeginBot(raises)
    \/ \E ltp \in LtpOutcomes, ltp2 \in LtpOutcomes, broker \in BrokerOutcomes :
          CmdMonitorStep(ltp, ltp2, broker)
    \/ CmdSelectSignals
    \/ \E ltp \in LtpOutcomes, broker \in BrokerOutcomes : CmdProcessSignal(ltp, broker)
    \/ \E raises \in Raises : CmdEndBot(raises)
    \/ CmdEndCycle

CmdStep == CmdCycle(BOOLEAN) \/ CmdInterrupt

\* For a direct call the lookup answers the entry price or raises, and the
\* broker accepts or rejects: one input for each way the call can end.
DirectLtp == {l \in LtpOutcomes : l.kind = "raise" \/ l.price = EntryPrice}

DirectStep ==
    \E sid \in SignalIds, ltp \in DirectLtp, broker \in {"ok", "rejected"} :
        DirectExecuteSignal(sid, ltp, broker)

SvcStep ==
    \E i \in Instances :
        \/ SvcBeginCycle(i)
        \/ SvcCheckSignal(i)
        \/ \E broker \in BrokerOutcomes : SvcPlaceOrder(i, broker)
        \/ \E fault \in Faults : SvcBookSignal(i, fault)
        \/ \E generate \in {"ok", "raise"} : SvcAfterSignals(i, generate)
        \/ \E ltp \in LtpOutcomes : SvcMonitorStep(i, ltp)
        \/ SvcEndCycle(i)

\* ------------------------------------------------------- specifications
\* The ledger used through one PortfolioService.
Init == LedgerInit /\ LoopIdle

Next == LedgerTrade \/ NewService

Spec == Init /\ [][Next]_vars

\* The ledger used through the requests of PortfolioViewSet.execute_trade.
NextView ==
    \E symbol \in Symbols, price \in RequestPrices, quantity \in RequestQuantities,
       action \in Actions :
        ExecuteTradeRequest(symbol, price, quantity, action)

SpecView == Init /\ [][NextView]_vars

\* Runs of the run_trading_bot command.
InitCmd == LedgerInit /\ LoopInit

NextCmd == CmdStep

SpecCmd == InitCmd /\ [][NextCmd]_vars

\* Runs of the command in which no statement of the cycle raises and no
\* interrupt arrives, and calls of execute_signal between them.
NextExec == CmdCycle({FALSE}) \/ DirectStep

SpecExec == InitCmd /\ [][NextExec]_vars

\* Two pending signals and one of the two execution loops: runs of the
\* command where run_bot_cycle is never called, and calls of run_bot_cycle
\* where the command is never run.
InitOrder == LedgerInit /\ OrderInit

NextOrder ==
    \/ nSvc = 0 /\ CmdCycle({FALSE})
    \/ cmd.cycles = 0 /\ SvcStep

SpecOrder == InitOrder /\ [][NextOrder]_vars

\* A bot that is stopped between cycles, and one of the two execution
\* loops.
NextStop ==
    \/ nSvc = 0 /\ CmdCycle({FALSE})
    \/ cmd.cycles = 0 /\ SvcStep
    \/ \E b \in Bots : StopBot(b)

SpecStop == InitCmd /\ [][NextStop]_vars

\* Calls of run_bot_cycle by two processes at a time.
NextSvc == SvcStep

SpecSvc == InitCmd /\ [][NextSvc]_vars

\* Calls of run_bot_cycle for a bot with two pending BUY signals.
InitLimit == LedgerInit /\ LimitInit

SpecLimit == InitLimit /\ [][NextSvc]_vars

\* ================================================================ claims
\* What a persisted Trade row adds to the balance: a BUY takes
\* price*quantity + fee, a SELL gives price*quantity - fee.
TradeDelta(t) ==
    LET trade_amount == t.price * t.quantity
    IN  IF t.action = "BUY" THEN -(trade_amount + BrokerageFee(trade_amount))
        ELSE trade_amount - BrokerageFee(trade_amount)

RECURSIVE SumDeltas(_)
SumDeltas(trs) ==
    IF trs = <<>> THEN 0 ELSE TradeDelta(Head(trs)) + SumDeltas(Tail(trs))

AcceptedStep == nCalls' = nCalls + 1 /\ lastCall'.outcome = "ok"
RejectedStep == nCalls' = nCalls + 1 /\ lastCall'.outcome # "ok"

\* C1: the persisted balance is the initial balance minus the cost of every
\* accepted BUY plus the proceeds of every accepted SELL (fees included),
\* to the cent; rejected calls contribute nothing.
C1_BalanceIsSumOfAcceptedTrades ==
    dbBalance = Quantize(InitialBalance + SumDeltas(trades))

\* C2: a call takes effect on the Trade rows, the balance and the position
\* together or not at all: a step that adds no Trade row changes neither
\* the persisted balance nor a position, and a step that adds one changes
\* the persisted balance by that trade's amount (to the cent) and nothing
\* of a failed call is persisted with it.
C2_AllOrNothing ==
    [][\/ /\ trades' = trades
          /\ dbBalance' = dbBalance
          /\ positions' = positions
       \/ /\ Len(trades') = Len(trades) + 1
          /\ Abs((dbBalance' - dbBalance) - TradeDelta(trades'[Len(trades')])) <= Cent
          /\ positions' # positions]_vars

\* C3: a SELL of more than the open position holds, or with no open
\* position, is rejected and leaves the balance (persisted and as the
\* service reports it), the position and the trade history unchanged.
C3_RejectedSellChangesNothing ==
    [][(RejectedStep /\ lastCall'.action = "SELL"
            /\ lastCall'.outcome \in {"no_position", "insufficient"})
        => /\ dbBalance' = dbBalance
           /\ memBalance' = memBalance
           /\ positions' = positions
           /\ trades' = trades]_vars

C9_InvestedIsAverageTimesQuantity ==
    \A s \in Symbols :
        (positions[s].exists /\ positions[s].is_open)
            => Abs(positions[s].invested_amount
                   - positions[s].average_price * positions[s].total_quantity) <= Cent

\* C10: every accepted BUY sets average_price to
\* (invested_amount before + price*quantity + fee) / (total_quantity before
\* + quantity), both taken as 0 when there is no position yet.
C10_BuyAverageIsWeighted ==
    [][(AcceptedStep /\ lastCall'.action = "BUY")
        => LET s == lastCall'.symbol
               trade_amount == lastCall'.price * lastCall'.quantity
           IN  positions'[s].average_price =
                   QuantizeDiv(positions[s].invested_amount + trade_amount
                                   + BrokerageFee(trade_amount),
                               positions[s].total_quantity + lastCall'.quantity)]_vars

ExecutedRows(s) ==
    {i \in 1 .. Len(executions) :
        executions[i].signal = s /\ executions[i].status = "EXECUTED"}

\* C4: a signal is executed at most once: over the cycles of the command and
\* the calls of execute_signal made between them, no signal ever has more
\* than one EXECUTED execution.
C4_SignalExecutedAtMostOnce ==
    \A s \in SignalIds : Cardinality(ExecutedRows(s)) <= 1

\* C6: a signal whose expiry time has passed is never executed by the
\* command's loop: its is_executed flag stays false.
C6_ExpiredSignalNeverExecuted ==
    \A s \in SignalIds : (signals[s].exists /\ signals[s].expired) => ~signals[s].is_executed

\* C7: while the command runs with --paper-only, the broker receives no
\* order, whatever the stored paper mode of the bot and whichever part of
\* the cycle (signal processing or the monitor's exits) asks for the trade.
C7_PaperOnlyPlacesNoOrder ==
    \A i \in 1 .. Len(orders) : ~orders[i].paper_only


ExecutedRowsBy(s, i) ==
    {k \in 1 .. Len(executions) :
        /\ executions[k].signal = s
        /\ executions[k].status = "EXECUTED"
        /\ executions[k].by = i}

ExecutedRowsOfInstances(s) == UNION {ExecutedRowsBy(s, i) : i \in Instances}

\* C5 (as stated): when two instances of the loop run the same bot at the
\* same time, a pending signal is still executed at most once, and the ledger
\* holds at most one booking for each executed signal.
C5_ConcurrentInstancesExecuteOnce ==
    /\ \A s \in SignalIds : Cardinality(ExecutedRowsOfInstances(s)) <= 1
    /\ Len(trades) <= Cardinality({s \in SignalIds : ExecutedRowsOfInstances(s) # {}})

\* C5 (amended): is_executed is tested when a cycle selects its pending
\* signals and set later, with no transaction around the two; what it
\* guarantees is that one instance of the loop executes a signal at most once.
C5_OneInstanceExecutesOnce ==
    \A s \in SignalIds : \A i \in Instances : Cardinality(ExecutedRowsBy(s, i)) <= 1

\* Two instances selected the same pending signal and each of them executed it.
C5_Witness ==
    \E s \in SignalIds :
        /\ ExecutedRowsBy(s, 1) # {}
        /\ ExecutedRowsBy(s, 2) # {}
        /\ signals[s].is_executed

\* The Trade row an accepted ledger step has just written.
LastTrade == trades'[Len(trades')]

AcceptedSell == AcceptedStep /\ lastCall'.action = "SELL"

C13_TerminalStatusIsFinal ==
    [][\A k \in 1 .. Len(executions) :
          /\ Len(executions') >= k
          /\ executions[k].status \in {"EXECUTED", "FAILED"}
                => executions'[k].status = executions[k].status]_vars

\* The EXECUTED executions whose processing is through.
SettledExecuted ==
    {k \in 1 .. Len(executions) :
        /\ executions[k].status = "EXECUTED"
        /\ \A i \in Instances : svc[i].exec # k}

\* C14: every execution that reaches EXECUTED has its ledger update, one
\* Trade row for each, whether the bot fills on paper or through the broker.
C14_ExecutedIsBookedWhateverAdapter ==
    Len(trades) = Cardinality(SettledExecuted)

RowAdded == Len(executions') = Len(executions) + 1

NewRow == executions'[Len(executions')]

BrokerFailures == BrokerOutcomes \ {"ok"}

\* The rows of the bot cycle in progress in which the broker turned down an
\* order for signal s.
TurnedDownInCycle(s) ==
    {k \in (cmd.mark + 1) .. Len(executions) :
        /\ executions[k].signal = s
        /\ executions[k].error_message \in BrokerFailures}

\* A step of instance i, running a live bot, in which an execution row is
\* added and the broker accepted no order.
BrokerFailedStep(i) ==
    /\ RowAdded
    /\ NewRow.by = i
    /\ ~svc[i].bot.is_paper_trading
    /\ orders' = orders

\* TradingBotService turns a failure of place_order into a FAILED execution
\* with the broker's message, leaves the signal and the ledger alone, and
\* takes the signal off the work list of the cycle.
BrokerFailureInService ==
    [][\A i \in Instances :
          BrokerFailedStep(i) =>
              /\ NewRow.status = "FAILED"
              /\ NewRow.error_message \in BrokerFailures
              /\ NewRow.signal = svc[i].cur
              /\ signals' = signals
              /\ dbBalance' = dbBalance /\ positions' = positions /\ trades' = trades
              /\ svc'[i].cur = 0
              /\ \A n \in 1 .. Len(svc'[i].queue) : svc'[i].queue[n] # svc[i].cur]_vars

\* C15: when place_order reports failure or raises, the execution is stored
\* FAILED with the broker's message as its error_message, the signal is not
\* marked executed, the ledger is not touched, and no further order is placed
\* for that signal in the same cycle.
C15_BrokerFailureIsFailedExecution ==
    [][(RowAdded /\ cmd.pc # "done") =>
          /\ NewRow.error_message \in BrokerFailures =>
                /\ NewRow.status = "FAILED"
                /\ signals'[NewRow.signal].is_executed = signals[NewRow.signal].is_executed
                /\ dbBalance' = dbBalance /\ positions' = positions /\ trades' = trades
          /\ TurnedDownInCycle(NewRow.signal) = {}]_vars

\* The executor filled an order in this step and the ledger update that
\* follows the fill raised.
LedgerFaultAfterFill ==
    /\ RowAdded
    /\ NewRow.by = 0
    /\ NewRow.status = "EXECUTED"
    /\ UpdatePortfolioRaises(signals'[NewRow.signal].signal_type)

\* C16: when the ledger update that follows a filled order raises, the
\* owning bot's error_count goes up with last_error set, or the execution
\* row carries an error_message.
C16_NoFaultSwallowed ==
    [][LedgerFaultAfterFill =>
          \/ NewRow.error_message # ""
          \/ /\ botDb'[NewRow.bot].error_count = botDb[NewRow.bot].error_count + 1
             /\ botDb'[NewRow.bot].last_error # ""
          \/ /\ cmd.pc # "done"
             /\ cmd'.mem[NewRow.bot].error_count = cmd.mem[NewRow.bot].error_count + 1
             /\ cmd'.mem[NewRow.bot].last_error # ""]_vars

\* The first statement of the bot's cycle raised: the cycle ended before
\* the monitor ran.
HeadRaised == cmd.pc = "bot" /\ cmd'.pc = "bot" /\ cmd'.idx = cmd.idx + 1

\* The save of the bot's statistics raised: the cycle ended and the bot row
\* was not written.
StatsRaised == cmd.pc = "signals" /\ cmd'.pc = "bot" /\ botDb' = botDb

\* C17: an exception raised inside one bot's cycle adds exactly one to that
\* bot's error_count and records last_error, and the loop goes on with the
\* next bot of the cycle.
C17_CycleExceptionIsCounted ==
    [][(HeadRaised \/ StatsRaised) =>
          LET b == cmd.bots[cmd.idx]
          IN  /\ botDb'[b].error_count = botDb[b].error_count + 1
              /\ botDb'[b].last_error # ""
              /\ cmd'.pc = "bot" /\ cmd'.idx = cmd.idx + 1 /\ cmd'.running]_vars

\* The same for the exceptions that reach the except clause of
\* _run_bot_cycle.
CycleExceptionAtBoundaryIsCounted ==
    [][HeadRaised =>
          LET b == cmd.bots[cmd.idx]
          IN  /\ botDb'[b].error_count = botDb[b].error_count + 1
              /\ botDb'[b].last_error # ""
              /\ cmd'.pc = "bot" /\ cmd'.idx = cmd.idx + 1 /\ cmd'.running]_vars

\* A bot cycle begins in this step.
BotCycleBegins == cmd.pc = "bot" /\ cmd'.pc = "monitor"

\* C18: once the interrupt has cleared the running flag, the command
\* executes no further signal and begins no further bot cycle, and the flag
\* stays cleared until the command has ended.
C18_InterruptDrains ==
    [][(cmd.pc # "done" /\ ~cmd.running) =>
          /\ ~RowAdded
          /\ orders' = orders
          /\ ~BotCycleBegins
          /\ ~cmd'.running]_vars

\* The same for the loop over the pending signals: no signal is taken from
\* the list once the flag is cleared.
InterruptStopsPendingSignals ==
    [][(cmd.pc = "signals" /\ ~cmd.running) =>
          /\ ~RowAdded
          /\ cmd'.pc = "signals" => cmd'.queue = cmd.queue]_vars

\* Runs of the command in which every enabled step of the command is taken
\* in the end.
SpecCmdFair == InitCmd /\ [][NextCmd]_vars /\ WF_vars(CmdCycle(BOOLEAN))

\* Once the flag is cleared the command ends.
InterruptTerminates == (~cmd.running) ~> (cmd.pc = "done")

\* The signals of the sequence q are in the order (confidence descending,
\* created_at descending).
InSelectionOrder(q) == \A m, n \in 1 .. Len(q) : m < n => Before(signals, q[m], q[n])

\* C19: in each of the two execution loops the pending signals of a cycle
\* are processed in order of descending confidence, the most recently
\* created first among equals.
C19_ProcessedInSelectionOrder ==
    /\ InSelectionOrder(cmd.queue)
    /\ \A i \in Instances : InSelectionOrder(svc[i].queue)

\* The same for the command alone.
CommandProcessesInSelectionOrder == InSelectionOrder(cmd.queue)

\* The stored exit signals of the executed BUY signal b: SELL signals of the
\* same symbol and strategy that carry a stop-loss or a take-profit price.
ExitSignalsOf(b) ==
    {s \in SignalIds \ {b} :
        /\ signals[s].exists
        /\ signals[s].signal_type = "SELL"
        /\ signals[s].symbol = signals[b].symbol
        /\ signals[s].strategy = signals[b].strategy
        /\ signals[s].stop_loss_price # 0 \/ signals[s].target_price # 0}

\* C20: once a BUY signal has executed, the signal store holds a SELL exit
\* signal for it that carries the exit thresholds.
C20_ExitSignalStoredAfterBuy ==
    \A k \in 1 .. Len(executions) :
        (executions[k].status = "EXECUTED" /\ signals[executions[k].signal].signal_type = "BUY")
            => ExitSignalsOf(executions[k].signal) # {}

\* A ledger call was made in this step with a price that is not positive or
\* a quantity below 1.
MalformedCall == nCalls' = nCalls + 1 /\ (lastCall'.price <= 0 \/ lastCall'.quantity < 1)

QuantityBelowOneRejected ==
    [][(nCalls' = nCalls + 1 /\ lastCall'.quantity < 1) =>
          /\ lastCall'.outcome # "ok"
          /\ trades' = trades
          /\ dbBalance' = dbBalance
          /\ positions' = positions]_vars

\* The quantity the sizing policy gives for a signal without a fixed
\* quantity: the position-size percentage of the balance over the entry
\* price, rounded down, and at least one share.
SizedQuantity(balance, entry_price) == Max(1, SvcBuyQuantity(balance, entry_price))

\* C22: the quantity of an execution of a BUY signal that carries no fixed
\* quantity is floor(position_size% * balance / entry_price), at least 1.
C22_QuantityFollowsSizingPolicy ==
    [][(RowAdded /\ signals'[NewRow.signal].signal_type = "BUY") =>
          NewRow.quantity = SizedQuantity(dbBalance, signals'[NewRow.signal].entry_price)]_vars

\* The same for TradingBotService, whose quantity comes from the balance of
\* the portfolio object the cycle holds.
ServiceQuantityFollowsSizingPolicy ==
    [][\A i \in Instances :
          (RowAdded /\ NewRow.by = i /\ signals'[NewRow.signal].signal_type = "BUY") =>
              NewRow.quantity = SizedQuantity(svc[i].mem, signals'[NewRow.signal].entry_price)]_vars

\* The executor filled an order on paper in this step: an EXECUTED row and
\* no order at the broker.
PaperFillStep ==
    /\ RowAdded
    /\ NewRow.by = 0
    /\ NewRow.status = "EXECUTED"
    /\ orders' = orders

\* A market price plus 0.1%, rounded half-up to the cent.
SlippedPrices == {HalfUpPerMille(p * 1001) : p \in LtpValues}

\* C23: a paper fill, BUY or SELL, is at a market price plus 0.1% slippage
\* rounded half-up to two decimal places, and a paper order that is not
\* filled carries the error of the price lookup.
C23_PaperFillIsPricePlusSlippage ==
    [][/\ PaperFillStep => NewRow.executed_price \in SlippedPrices
       /\ (RowAdded /\ NewRow.by = 0 /\ NewRow.status = "FAILED" /\ orders' = orders)
              => NewRow.error_message # ""]_vars

\* C24: after an execute_trade call that raises, current_balance of the
\* Portfolio object the service holds equals the persisted balance.
C24_RaisedCallLeavesObjectInStep ==
    [][RejectedStep => memBalance' = dbBalance']_vars

C26_FailedExecutionHasNoOrder ==
    \A n \in 1 .. Len(orders) :
        /\ executions[orders[n].execution].status = "EXECUTED"
        /\ signals[orders[n].signal].is_executed

\* The executed entries: EXECUTED executions of BUY signals.
EntryRows ==
    {k \in 1 .. Len(executions) :
        /\ executions[k].status = "EXECUTED"
        /\ signals[executions[k].signal].signal_type = "BUY"}

\* The executed exits: EXECUTED executions of the SELL signals that
\* OrderMonitor._trigger_exit created.
ExitRows ==
    {k \in 1 .. Len(executions) :
        /\ executions[k].status = "EXECUTED"
        /\ signals[executions[k].signal].signal_type = "SELL"
        /\ signals[executions[k].signal].confidence = ExitConfidence}

\* C27: the monitor executes at most one exit for each executed BUY entry.
C27_OneExitPerEntry == Cardinality(ExitRows) <= Cardinality(EntryRows)

\* C28: a signal is marked executed only if one of its executions is
\* EXECUTED; a signal whose execution ended FAILED is not marked executed.
C28_ExecutedSignalHasExecutedRow ==
    \A s \in SignalIds :
        signals[s].is_executed =>
            \E k \in 1 .. Len(executions) :
                executions[k].signal = s /\ executions[k].status = "EXECUTED"

\* C29: once a bot is stored with is_active False, no cycle begins for it
\* and no signal is executed for it, in the loop of the command or in
\* run_bot_cycle.
C29_StoppedBotExecutesNothing ==
    [][/\ BotCycleBegins => botDb[cmd.bots[cmd.idx]].is_active
       /\ RowAdded => botDb[NewRow.bot].is_active]_vars

\* The same for run_bot_cycle alone.
StoppedBotRunsNoServiceCycle ==
    [][\A i \in Instances :
          /\ (svc[i].pc = "idle" /\ svc'[i].pc # "idle") => botDb[svc'[i].name].is_active
          /\ (RowAdded /\ NewRow.by = i) => botDb[NewRow.bot].is_active]_vars

====
